---- MODULE Spec2Model ----
(***************************************************************************)
(* Model of the vector retrieval subsystem of enterprise-qa-system:        *)
(* VectorDatabase (src/database.py) and the handlers of src/app.py that    *)
(* drive it.  A VectorDatabase instance is a record whose fields are the   *)
(* attributes set in __init__; a faiss index is a record holding its type, *)
(* its dimension d, its training flag and the vectors added so far.        *)
(* Vectors lie on the first coordinate axis: Vec(w, x) is the vector of    *)
(* width w whose first coordinate is x and whose other coordinates are 0.  *)
(***************************************************************************)
EXTENDS Integers, Sequences, FiniteSets, TLC

VARIABLES vector_db, files, ret, log, wf, writer, reader, query_history, answered

vars == <<vector_db, files, ret, log, wf, writer, reader, query_history, answered>>

\* the request threads, at rest in the runs that make one call after another
threads == <<writer, reader>>

\* the query history of app.py, and every record ever appended to it
queries == <<query_history, answered>>

(* ------------------------------ bounds --------------------------------- *)

\* no list of the database grows beyond MaxDocs entries
MaxDocs == 2

\* documents added before get_context is called, in the runs that call it
MaxContextDocs == 9

\* queries answered in the runs that query a seeded database, and in the runs
\* that fill the query history
MaxQueries == 1
\* queries recorded in the runs of concurrent requests
MaxThreadQueries == 2
MaxHistoryQueries == 102

\* sizes of one batch passed to add_embeddings
BatchLens == 0 .. 2
\* dimensions a database is constructed with, and widths of arrays passed in
Dims == {1}
Widths == {1, 2}
Docs == {"a", "b"}
\* first coordinates of vectors
Coords == {0, 1}

(* --------------------------- program constants ------------------------- *)

\* VECTOR_DB_CONFIG["dimension"], ["nlist"], ["nprobe"], ["index_type"]
ConfigDimension == 768
ConfigNList == 100
NProbe == 10
ConfigIndexType == "ivfflat"
\* create_index: m = 8 (sub-spaces of the product quantizer)
PQ_M == 8
\* create_index: bits = 8; the product quantizer trains 2^bits centroids
PQ_Bits == 8
PQ_Centroids == 2 ^ PQ_Bits

IndexTypes == {"flat", "ivfflat", "ivfpq", "hnsw", "lsh"}

(* ------------------------------ helpers -------------------------------- *)

Min(a, b) == IF a < b THEN a ELSE b

Max(S) == CHOOSE x \in S : \A y \in S : y <= x

Vec(w, x) == [i \in 1 .. w |-> IF i = 1 THEN x ELSE 0]

\* a numpy array of shape (Len(rows), w)
Array(w, xs) == [w |-> w, rows |-> [i \in 1 .. Len(xs) |-> Vec(w, xs[i])]]

EmbeddingBatches ==
    {Array(w, xs) : w \in Widths, xs \in UNION {[1 .. n -> Coords] : n \in BatchLens}}

DocumentBatches == UNION {[1 .. n -> Docs] : n \in BatchLens}

\* the dict objects a caller of the database holds and may pass again; 0
\* stands for an object nothing else refers to
DictObjects == {1, 2}

\* one entry of a metadata list: a dict (with a "type" tag; obj tells which
\* object it is) or something that is no dict (null, a string, a number)
NoDict == [dict |-> FALSE, tag |-> "", obj |-> 0]
MetaEntries == {[dict |-> TRUE, tag |-> "t", obj |-> o] : o \in DictObjects} \cup {NoDict}

\* the entries of a list parsed from a JSON body: every dict is a new object
JsonMetaEntries == {[dict |-> TRUE, tag |-> "t", obj |-> 0], NoDict}

\* metadata_list: None, or a list
NoMetadata == [none |-> TRUE, list |-> <<>>]
MetadataLists ==
    {NoMetadata} \cup
    {[none |-> FALSE, list |-> l] : l \in UNION {[1 .. n -> MetaEntries] : n \in BatchLens}}
JsonMetadataLists ==
    {NoMetadata} \cup
    {[none |-> FALSE, list |-> l] : l \in UNION {[1 .. n -> JsonMetaEntries] : n \in BatchLens}}

(* ------------------------------ faiss index ---------------------------- *)

NoIndex == [type |-> "none", d |-> 0, nlist |-> 0, trained |-> FALSE, vecs |-> <<>>]

NTotal(index) == Len(index.vecs)

\* VectorDatabase.__init__: an argument that is None, 0 or "" (written 0 and
\* "" here) gives way to the configured value
NewVectorDatabase(dim, nlist, index_type) ==
    [dim |-> IF dim = 0 THEN ConfigDimension ELSE dim,
     nlist |-> IF nlist = 0 THEN ConfigNList ELSE nlist,
     index_type |-> IF index_type = "" THEN ConfigIndexType ELSE index_type,
     index |-> NoIndex,
     documents |-> <<>>, metadata |-> <<>>, document_ids |-> <<>>,
     next_id |-> 0, embeddings_cache |-> <<>>]

\* VectorDatabase.create_index: [raised, self]
CreateIndex(self) ==
    CASE self.index_type = "flat" ->
           [raised |-> FALSE,
            self |-> [self EXCEPT !.index =
               [type |-> "flat", d |-> self.dim, nlist |-> 0, trained |-> TRUE, vecs |-> <<>>]]]
      [] self.index_type = "ivfflat" ->
           [raised |-> FALSE,
            self |-> [self EXCEPT !.index =
               [type |-> "ivfflat", d |-> self.dim, nlist |-> self.nlist,
                trained |-> FALSE, vecs |-> <<>>]]]
      [] self.index_type = "ivfpq" ->
           \* faiss refuses a product quantizer whose d is no multiple of m
           IF self.dim % PQ_M # 0
           THEN [raised |-> TRUE, self |-> self]
           ELSE [raised |-> FALSE,
                 self |-> [self EXCEPT !.index =
                    [type |-> "ivfpq", d |-> self.dim, nlist |-> self.nlist,
                     trained |-> FALSE, vecs |-> <<>>]]]
      [] self.index_type = "hnsw" ->
           [raised |-> FALSE,
            self |-> [self EXCEPT !.index =
               [type |-> "hnsw", d |-> self.dim, nlist |-> 0, trained |-> TRUE, vecs |-> <<>>]]]
      [] OTHER -> [raised |-> TRUE, self |-> self]

\* points faiss needs to train the index
TrainingPoints(index) ==
    IF index.type = "ivfpq"
    THEN (IF index.nlist > PQ_Centroids THEN index.nlist ELSE PQ_Centroids)
    ELSE index.nlist

\* VectorDatabase.train: nothing is done when the index is None (it has no
\* is_trained) or is trained; index.train raises on arrays of the wrong width
\* and on fewer points than centroids
Train(self, embeddings) ==
    IF self.index.type = "none" \/ self.index.trained
    THEN [raised |-> FALSE, self |-> self]
    ELSE IF embeddings.w # self.index.d \/ Len(embeddings.rows) < TrainingPoints(self.index)
         THEN [raised |-> TRUE, self |-> self]
         ELSE [raised |-> FALSE, self |-> [self EXCEPT !.index.trained = TRUE]]

\* index.add(embeddings)
IndexAdd(self, embeddings) ==
    IF embeddings.w # self.index.d \/ ~self.index.trained
    THEN [raised |-> TRUE, self |-> self]
    ELSE [raised |-> FALSE,
          self |-> [self EXCEPT !.index.vecs = @ \o embeddings.rows]]


(* ---------------------------- document store --------------------------- *)

\* the metadata of a document that came without any: a new dict {"id": doc_id}
DefaultMetadata(doc_id) == [tag |-> "", id |-> doc_id, obj |-> 0]

\* meta["id"] = doc_id; self.metadata.append(meta): the list holds the
\* caller's dict itself, so the id written shows at every position that
\* holds this dict already
AppendMetadata(metadata, meta, doc_id) ==
    Append([j \in 1 .. Len(metadata) |->
               IF meta.obj # 0 /\ metadata[j].obj = meta.obj
               THEN [metadata[j] EXCEPT !.id = doc_id] ELSE metadata[j]],
           [tag |-> meta.tag, id |-> doc_id, obj |-> meta.obj])

\* add_documents, the loop over enumerate(metadata_list) from entry i on:
\* entries at positions below len(documents) get meta["id"] set and are
\* appended; meta["id"] = ... raises on an entry that is no dict
RECURSIVE StoreMetadata(_, _, _, _)
StoreMetadata(metadata, list, new_ids, i) ==
    IF i > Len(list)
    THEN [raised |-> FALSE, metadata |-> metadata]
    ELSE IF i <= Len(new_ids)
         THEN IF ~list[i].dict
              THEN [raised |-> TRUE, metadata |-> metadata]
              ELSE StoreMetadata(AppendMetadata(metadata, list[i], new_ids[i]),
                                 list, new_ids, i + 1)
         ELSE StoreMetadata(metadata, list, new_ids, i + 1)

\* VectorDatabase.add_documents: [raised, self]
AddDocuments(self, documents, metadata_list) ==
    IF Len(documents) = 0
    THEN [raised |-> FALSE, self |-> self]
    ELSE LET start_id == self.next_id
             new_ids  == [j \in 1 .. Len(documents) |-> start_id + j - 1]
             stored   == [self EXCEPT !.documents = @ \o documents,
                                      !.document_ids = @ \o new_ids]
         IN IF ~metadata_list.none /\ Len(metadata_list.list) > 0
            THEN LET m == StoreMetadata(stored.metadata, metadata_list.list, new_ids, 1)
                 IN IF m.raised
                    THEN [raised |-> TRUE, self |-> [stored EXCEPT !.metadata = m.metadata]]
                    ELSE [raised |-> FALSE,
                          self |-> [stored EXCEPT !.metadata = m.metadata,
                                                  !.next_id = @ + Len(documents)]]
            ELSE [raised |-> FALSE,
                  self |-> [stored EXCEPT
                     !.metadata = @ \o [j \in 1 .. Len(new_ids) |-> DefaultMetadata(new_ids[j])],
                     !.next_id = @ + Len(documents)]]

(* ------------------------------ coordinator ---------------------------- *)

\* add_embeddings up to and including embeddings_cache.extend: [raised, self]
AddVectors(self, embeddings) ==
    LET created == IF self.index.type = "none"
                   THEN CreateIndex(self)
                   ELSE [raised |-> FALSE, self |-> self]
    IN IF created.raised THEN created
       ELSE LET trained == Train(created.self, embeddings)
            IN IF trained.raised THEN trained
               ELSE LET added == IndexAdd(trained.self, embeddings)
                    IN IF added.raised THEN added
                       ELSE [raised |-> FALSE,
                             self |-> [added.self EXCEPT
                                !.embeddings_cache = @ \o embeddings.rows]]

\* VectorDatabase.add_embeddings: [raised, self]
AddEmbeddings(self, embeddings, documents, metadata_list) ==
    LET v == AddVectors(self, embeddings)
    IN IF v.raised THEN v ELSE AddDocuments(v.self, documents, metadata_list)


(* -------------------------------- search ------------------------------- *)

\* a query array: one row, of a width some database has or of another
Queries ==
    {Array(w, <<x>>) : w \in Dims, x \in Coords} \cup
    {Array(w, <<0>>) : w \in Widths \ Dims}

\* values of k tried in calls of search
Ks == 0 .. MaxDocs + 1

\* threshold: None, or the rational num/den (den > 0)
NoThreshold == [none |-> TRUE, num |-> 0, den |-> 1]
Thresholds ==
    {NoThreshold} \cup
    {[none |-> FALSE, num |-> t[1], den |-> t[2]] :
        t \in {<<0, 1>>, <<1, 2>>, <<3, 4>>, <<1, 1>>}}

RECURSIVE SumSq(_, _, _)
SumSq(u, v, i) ==
    IF i > Len(u) THEN 0 ELSE (u[i] - v[i]) * (u[i] - v[i]) + SumSq(u, v, i + 1)

\* squared L2 distance, the metric of every index type built by create_index
L2(u, v) == SumSq(u, v, 1)

\* the distance faiss reports beside the label -1 (+inf): above every distance
InfDistance == Max(Widths) * Max(Coords) * Max(Coords) + 1

\* labels are 0-based positions in the index
Labels(index) == 0 .. NTotal(index) - 1

\* the sets of vectors a search of the index may visit: every vector for an
\* exact index and for an inverted file all of whose lists are probed, any
\* subset for the approximate structures
FoundSets(index) ==
    IF \/ index.type = "flat"
       \/ index.type \in {"ivfflat", "ivfpq"} /\ index.nlist <= NProbe
    THEN {Labels(index)}
    ELSE SUBSET Labels(index)

\* the labels of S by ascending distance to q (ties: lower label first)
RECURSIVE Nearest(_, _, _)
Nearest(index, q, S) ==
    IF S = {} THEN <<>>
    ELSE LET best == CHOOSE a \in S : \A b \in S :
                        \/ L2(index.vecs[a + 1], q) < L2(index.vecs[b + 1], q)
                        \/ L2(index.vecs[a + 1], q) = L2(index.vecs[b + 1], q) /\ a <= b
         IN <<best>> \o Nearest(index, q, S \ {best})

\* index.search(query_vector, k): the k nearest of the visited vectors by
\* ascending distance, padded with label -1; raises on a query of the wrong
\* width and on k <= 0
IndexSearch(index, query_vector, k, found) ==
    IF query_vector.w # index.d \/ k <= 0
    THEN [raised |-> TRUE, distances |-> <<>>, indices |-> <<>>]
    ELSE LET q     == query_vector.rows[1]
             order == Nearest(index, q, found)
         IN [raised |-> FALSE,
             indices |-> [i \in 1 .. k |-> IF i <= Len(order) THEN order[i] ELSE -1],
             distances |-> [i \in 1 .. k |->
                 IF i <= Len(order) THEN L2(index.vecs[order[i] + 1], q) ELSE InfDistance]]

\* the comparison written similarity <= threshold
AtOrBelowThreshold(distance, threshold) ==
    threshold.den <= threshold.num * (1 + distance)

\* similarity = 1.0 / (1.0 + distance); similarity < threshold
BelowThreshold(distance, threshold) ==
    threshold.den < threshold.num * (1 + distance)

NoResults == [raised |-> FALSE, distances |-> <<>>, indices |-> <<>>, documents |-> <<>>]

\* the loop with every valid candidate put in front of the valid_* lists
RECURSIVE CollectReversed(_, _, _, _, _)
CollectReversed(self, cand, threshold, i, acc) ==
    IF i > Len(cand.indices) THEN acc
    ELSE LET idx == cand.indices[i]
         IN IF idx = -1
            THEN CollectReversed(self, cand, threshold, i + 1, acc)
            ELSE IF ~threshold.none /\ BelowThreshold(cand.distances[i], threshold)
            THEN CollectReversed(self, cand, threshold, i + 1, acc)
            ELSE IF idx >= Len(self.documents)
            THEN [acc EXCEPT !.raised = TRUE]
            ELSE CollectReversed(self, cand, threshold, i + 1,
                     [acc EXCEPT !.indices = <<idx>> \o @,
                                 !.distances = <<cand.distances[i]>> \o @,
                                 !.documents = <<self.documents[idx + 1]>> \o @])

\* search, the loop "for i in range(k)" from candidate i on (acc: the valid_*
\* lists so far); self.documents[idx] raises when idx is no position of it
RECURSIVE Collect(_, _, _, _, _)
Collect(self, cand, threshold, i, acc) ==
    IF i > Len(cand.indices) THEN acc
    ELSE LET idx == cand.indices[i]
         IN IF idx = -1
            THEN Collect(self, cand, threshold, i + 1, acc)
            ELSE IF ~threshold.none /\ BelowThreshold(cand.distances[i], threshold)
            THEN Collect(self, cand, threshold, i + 1, acc)
            ELSE IF idx >= Len(self.documents)
            THEN [acc EXCEPT !.raised = TRUE]
            ELSE Collect(self, cand, threshold, i + 1,
                         [acc EXCEPT !.indices = Append(@, idx),
                                     !.distances = Append(@, cand.distances[i]),
                                     !.documents = Append(@, self.documents[idx + 1])])

\* search whose first test is "self.index is None" alone
SearchUnguarded(self, query_vector, k, threshold, found) ==
    IF self.index.type = "none"
    THEN NoResults
    ELSE LET cand == IndexSearch(self.index, query_vector,
                                 Min(k, NTotal(self.index)), found)
         IN IF cand.raised
            THEN [NoResults EXCEPT !.raised = TRUE]
            ELSE Collect(self, cand, threshold, 1, NoResults)

\* VectorDatabase.search: [raised, distances, indices, documents]
Search(self, query_vector, k, threshold, found) ==
    IF self.index.type = "none" \/ NTotal(self.index) = 0
    THEN NoResults
    ELSE LET cand == IndexSearch(self.index, query_vector,
                                 Min(k, NTotal(self.index)), found)
         IN IF cand.raised
            THEN [NoResults EXCEPT !.raised = TRUE]
            ELSE Collect(self, cand, threshold, 1, NoResults)

\* VectorDatabase.get_stats
GetStats(self) ==
    [total_documents |-> Len(self.documents),
     total_vectors |-> IF self.index.type # "none" THEN NTotal(self.index) ELSE 0,
     dimension |-> self.dim, index_type |-> self.index_type, nlist |-> self.nlist]

(* ------------------------------ get_context ---------------------------- *)

\* documents of 1 and of 501 characters
RECURSIVE Repeat(_, _)
Repeat(s, n) == IF n = 0 THEN "" ELSE s \o Repeat(s, n - 1)
LongDoc == Repeat("0123456789", 50) \o "x"
ContextDocs == {"a", LongDoc}

\* get_context: if len(doc) > 500: doc = doc[:500] + "..."
DocLimit == 500
Truncate(doc) == IF Len(doc) > DocLimit THEN SubSeq(doc, 1, DocLimit) \o "..." ELSE doc

\* n is a power of two: 1.0 / n is then exact in binary floating point
RECURSIVE PowerOfTwo(_)
PowerOfTwo(n) == n = 1 \/ (n > 1 /\ n % 2 = 0 /\ PowerOfTwo(n \div 2))

\* dist is a numpy.float32: the quotient 1.0 / (1.0 + dist) is a float64
\* with numpy before 2.0 and a float32 from 2.0 on, and no version is asked for
FloatBits == {32, 64}

\* similarity = 1.0 / (1.0 + dist) in thousandths, as {similarity:.3f} rounds
\* it: to the nearest thousandth, an exact tie (1/16 = 0.0625) to the even
\* one; the other quotients halfway between two thousandths are floats
\* slightly off the half: 1/80 and 1/2000 above it, 1/400 above it as a
\* float64 and below it as a float32
Thousandths(dist, bits) ==
    LET n == 1 + dist
        q == 1000 \div n
        r == 1000 % n
    IN IF 2 * r < n THEN q
       ELSE IF 2 * r > n THEN q + 1
       ELSE IF PowerOfTwo(n) /\ q % 2 = 0 THEN q
       ELSE IF n = 400 /\ bits = 32 THEN q
       ELSE q + 1

\* the characters of a number of thousandths printed with three decimals
DecimalsLen(m) == IF m < 10000 THEN 5 ELSE 6

\* the three characters of the label in front of the similarity
LabelLen == 3

\* context_part = "[<label>: <similarity>] <doc>", kept as its pieces
ContextPart(doc, dist, bits) ==
    [similarity |-> Thousandths(dist, bits), doc |-> Truncate(doc)]

\* len(context_part)
PartLen(part) ==
    Len("[") + LabelLen + Len(": ") + DecimalsLen(part.similarity) + Len("] ") + Len(part.doc)

RECURSIVE SumLen(_, _)
SumLen(parts, i) == IF i > Len(parts) THEN 0 ELSE PartLen(parts[i]) + SumLen(parts, i + 1)

\* len("\n\n".join(context_parts))
JoinedLen(parts) ==
    IF parts = <<>> THEN 0 ELSE SumLen(parts, 1) + Len("\n\n") * (Len(parts) - 1)

\* get_context, the loop over zip(documents, distances) from result i on
RECURSIVE BuildContext(_, _, _, _, _, _)
BuildContext(r, max_length, bits, i, context_parts, total_length) ==
    IF i > Len(r.documents) THEN context_parts
    ELSE LET context_part == ContextPart(r.documents[i], r.distances[i], bits)
         IN IF total_length + PartLen(context_part) > max_length
            THEN context_parts
            ELSE BuildContext(r, max_length, bits, i + 1, Append(context_parts, context_part),
                              total_length + PartLen(context_part))

\* VectorDatabase.get_context: [raised, context_parts], the context being the
\* parts joined by "\n\n"
GetContext(self, query_vector, k, max_length, found, bits) ==
    LET r == Search(self, query_vector, k, NoThreshold, found)
    IN IF r.raised THEN [raised |-> TRUE, context_parts |-> <<>>]
       ELSE IF r.documents = <<>> THEN [raised |-> FALSE, context_parts |-> <<>>]
       ELSE [raised |-> FALSE, context_parts |-> BuildContext(r, max_length, bits, 1, <<>>, 0)]

(* ------------------------------ persistence ---------------------------- *)

\* the two files under one path prefix: <path>.faiss and <path>_data.pkl
NoFiles == [has_index |-> FALSE, index |-> NoIndex, has_data |-> FALSE,
            data |-> [documents |-> <<>>, metadata |-> <<>>, document_ids |-> <<>>,
                      next_id |-> 0, dim |-> 0, nlist |-> 0, index_type |-> "none",
                      embeddings_cache |-> <<>>]]

\* save: if self.index is not None: faiss.write_index(self.index, ...)
SaveIndex(self, fs) ==
    [fs EXCEPT !.has_index = @ \/ self.index.type # "none",
               !.index = IF self.index.type # "none" THEN self.index ELSE @]

\* save: data = {...}; pickle.dump(data, f)
SaveData(self, fs) ==
    [fs EXCEPT !.has_data = TRUE,
               !.data = [documents |-> self.documents, metadata |-> self.metadata,
                         document_ids |-> self.document_ids, next_id |-> self.next_id,
                         dim |-> self.dim, nlist |-> self.nlist,
                         index_type |-> self.index_type,
                         embeddings_cache |-> self.embeddings_cache]]

\* VectorDatabase.save: the files afterwards, the index file written first
Save(self, fs) == SaveData(self, SaveIndex(self, fs))

\* pickle.load: the dicts read from the file are new objects
Unpickled(metadata) == [j \in 1 .. Len(metadata) |-> [metadata[j] EXCEPT !.obj = 0]]

\* VectorDatabase.load: self afterwards
Load(self, fs) ==
    LET indexed == [self EXCEPT !.index = IF fs.has_index THEN fs.index ELSE NoIndex]
    IN IF fs.has_data
       THEN [indexed EXCEPT !.documents = fs.data.documents,
                            !.metadata = Unpickled(fs.data.metadata),
                            !.document_ids = fs.data.document_ids,
                            !.next_id = fs.data.next_id,
                            !.dim = fs.data.dim,
                            !.nlist = fs.data.nlist,
                            !.index_type = fs.data.index_type,
                            !.embeddings_cache = fs.data.embeddings_cache]
       ELSE indexed

(* ------------------------------- actions ------------------------------- *)

\* what the last call did: the operation, whether it raised, and the number
\* of results when it was a search
Outcome(op, raised) == [op |-> op, raised |-> raised, n |-> 0]

\* the databases a run starts from: VectorDatabase(dim, nlist, index_type)
\* (nlist is read by the inverted-file types alone), and VectorDatabase()
Configs ==
    {NewVectorDatabase(d, 1, t) : d \in Dims, t \in IndexTypes} \cup
    {NewVectorDatabase(d, 2, "ivfflat") : d \in Dims} \cup
    {NewVectorDatabase(0, 0, "")}

\* a call all of whose arguments are as the contract asks: a non-empty batch,
\* one embedding per document, one metadata dict per document
WellFormed(embeddings, documents, metadata_list) ==
    /\ Len(documents) > 0
    /\ Len(embeddings.rows) = Len(documents)
    /\ ~metadata_list.none
    /\ Len(metadata_list.list) = Len(documents)
    /\ \A j \in 1 .. Len(metadata_list.list) : metadata_list.list[j].dict

\* what a well-formed call, the call-th of them, inserts: the document, the
\* metadata supplied with it, and the next ID in sequence
Inserted(documents, metadata_list, first, call) ==
    [j \in 1 .. Len(documents) |->
        [doc |-> documents[j], tag |-> metadata_list.list[j].tag, id |-> first + j - 1,
         call |-> call]]

Fits(self, embeddings, documents) ==
    /\ NTotal(self.index) + Len(embeddings.rows) <= MaxDocs
    /\ Len(self.embeddings_cache) + Len(embeddings.rows) <= MaxDocs
    /\ Len(self.documents) + Len(documents) <= MaxDocs

\* a request thread that handles no request
WriterIdle == [pc |-> "idle", embeddings |-> Array(0, <<>>), documents |-> <<>>,
               metadata_list |-> NoMetadata, new_ids |-> <<>>, i |-> 0]
NoCandidates == [raised |-> FALSE, distances |-> <<>>, indices |-> <<>>]
ReaderIdle == [pc |-> "idle", query_vector |-> Array(0, <<>>), k |-> 0,
               threshold |-> NoThreshold, raced |-> FALSE, before |-> NoIndex,
               cand |-> NoCandidates, i |-> 0, acc |-> NoResults, answer |-> ""]

Init ==
    /\ vector_db \in Configs
    /\ files = NoFiles
    /\ ret = Outcome("init", FALSE)
    /\ log = <<>>
    /\ wf = TRUE
    /\ writer = WriterIdle
    /\ reader = ReaderIdle
    /\ query_history = <<>>
    /\ answered = <<>>

\* the ghost variables after a call of add_embeddings with outcome r
Logged(r, embeddings, documents, metadata_list) ==
    LET ok == wf /\ WellFormed(embeddings, documents, metadata_list)
    IN /\ wf' = ok
       /\ log' = IF ~ok THEN <<>>
                 ELSE IF r.raised THEN log
                 ELSE log \o Inserted(documents, metadata_list, Len(log),
                                        IF log = <<>> THEN 1 ELSE log[Len(log)].call + 1)

\* a call of vector_db.add_embeddings(embeddings, documents, metadata_list)
AddEmbeddingsCall ==
    \E embeddings \in EmbeddingBatches, documents \in DocumentBatches :
        /\ Fits(vector_db, embeddings, documents)
        /\ \E metadata_list \in MetadataLists :
            LET r == AddEmbeddings(vector_db, embeddings, documents, metadata_list)
            IN /\ vector_db' = r.self
               /\ ret' = Outcome("add_embeddings", r.raised)
               /\ Logged(r, embeddings, documents, metadata_list)
        /\ UNCHANGED <<files, threads, queries>>

\* a call of vector_db.add_embeddings(embeddings, documents), metadata_list
\* left to its default None
AddEmbeddingsDefault ==
    \E embeddings \in EmbeddingBatches, documents \in DocumentBatches :
        /\ Fits(vector_db, embeddings, documents)
        /\ LET metadata_list == NoMetadata
               r == AddEmbeddings(vector_db, embeddings, documents, metadata_list)
           IN /\ vector_db' = r.self
              /\ ret' = Outcome("add_embeddings", r.raised)
              /\ Logged(r, embeddings, documents, metadata_list)
        /\ UNCHANGED <<files, threads, queries>>

\* utils.preprocess_data(texts, mode="embedding"): one vector per text, of
\* the width w of the embedding model
Embedding(doc) == IF doc = "a" THEN 0 ELSE 1
PreprocessData(texts, w) == Array(w, [i \in 1 .. Len(texts) |-> Embedding(texts[i])])

\* app.add_document: a POST /add_document request with the given documents
\* and metadata; the database is saved unless add_embeddings raised
AddDocumentRequest ==
    \E documents \in DocumentBatches \ {<<>>}, w \in Widths :
        LET embeddings == PreprocessData(documents, w)
        IN /\ Fits(vector_db, embeddings, documents)
           /\ \E metadata_list \in JsonMetadataLists :
               LET r == AddEmbeddings(vector_db, embeddings, documents, metadata_list)
               IN /\ vector_db' = r.self
                  /\ files' = IF r.raised THEN files ELSE Save(r.self, files)
                  /\ ret' = Outcome("add_document", r.raised)
                  /\ Logged(r, embeddings, documents, metadata_list)
           /\ UNCHANGED <<threads, queries>>

\* a call of vector_db.search(query_vector, k, threshold)
SearchCall ==
    \E query_vector \in Queries, k \in Ks, threshold \in Thresholds,
       found \in FoundSets(vector_db.index) :
        LET r == Search(vector_db, query_vector, k, threshold, found)
        IN /\ ret' = [op |-> "search", raised |-> r.raised, n |-> Len(r.documents)]
           /\ UNCHANGED <<vector_db, files, log, wf, threads, queries>>

\* a call of vector_db.save(path)
SaveCall ==
    /\ files' = Save(vector_db, files)
    /\ ret' = Outcome("save", FALSE)
    /\ UNCHANGED <<vector_db, log, wf, threads, queries>>

\* a call of vector_db.load(path)
LoadCall ==
    /\ vector_db' = Load(vector_db, files)
    /\ ret' = Outcome("load", FALSE)
    /\ log' = <<>>
    /\ wf' = FALSE
    /\ UNCHANGED <<files, threads, queries>>

\* vector_db = VectorDatabase(dim, nlist, index_type) with the arguments of
\* the run: a new instance, the files of earlier instances stay
NewDatabase ==
    /\ vector_db' = NewVectorDatabase(vector_db.dim, vector_db.nlist, vector_db.index_type)
    /\ ret' = Outcome("init", FALSE)
    /\ log' = <<>>
    /\ wf' = FALSE
    /\ UNCHANGED <<files, threads, queries>>

Next == AddEmbeddingsCall

Spec == Init /\ [][Next]_vars

NextSearch == AddEmbeddingsDefault \/ SearchCall \/ LoadCall

SpecSearch == Init /\ [][NextSearch]_vars

NextStore == AddDocumentRequest \/ SearchCall \/ SaveCall \/ LoadCall \/ NewDatabase

SpecStore == Init /\ [][NextStore]_vars


\* values of k and max_length tried in calls of get_context: one, the
\* defaults, and the values at which every document is asked for and fits
ContextKs == {1, 5, MaxContextDocs}
ContextMaxLengths ==
    {0, PartLen(ContextPart("a", 0, 64)), MaxContextDocs * PartLen(ContextPart("a", 0, 64)), 2000}

\* a call of vector_db.add_embeddings(preprocess_data([doc]), [doc])
AddTextCall ==
    \E doc \in ContextDocs, w \in Widths :
        /\ Len(vector_db.documents) < MaxContextDocs
        /\ NTotal(vector_db.index) < MaxContextDocs
        /\ LET r == AddEmbeddings(vector_db, PreprocessData(<<doc>>, w), <<doc>>,
                                  NoMetadata)
           IN /\ vector_db' = r.self
              /\ ret' = Outcome("add_embeddings", r.raised)
        /\ log' = <<>>
        /\ wf' = FALSE
        /\ UNCHANGED <<files, threads, queries>>

\* a call of vector_db.get_context(query_vector, k, max_length)
GetContextCall ==
    \E query_vector \in Queries, k \in ContextKs, max_length \in ContextMaxLengths,
       found \in FoundSets(vector_db.index), bits \in FloatBits :
        LET c == GetContext(vector_db, query_vector, k, max_length, found, bits)
        IN /\ ret' = Outcome("get_context", c.raised)
           /\ UNCHANGED <<vector_db, files, log, wf, threads, queries>>

NextContext == AddTextCall \/ GetContextCall

\* the runs that call get_context start from a database whose index type
\* searches exhaustively
InitContext ==
    /\ Init
    /\ vector_db.index_type \in {"flat", "ivfflat"}

SpecContext == InitContext /\ [][NextContext]_vars

(* --------------------------- query orchestration ----------------------- *)
(* app.query and utils.validate_inputs.  The texts the code writes in      *)
(* Chinese (error messages, the label of the supplementary section, the    *)
(* fallback context) are written here in English.                          *)

\* the value data.get(key) gives: None for an absent key, a string, a number
None == [kind |-> "none", str |-> "", num |-> 0]
Str(s) == [kind |-> "str", str |-> s, num |-> 0]
Num(n) == [kind |-> "num", str |-> "", num |-> n]

\* the truth value Python gives v in "if v" and "not v"
Truthy(v) == (v.kind = "str" /\ v.str # "") \/ (v.kind = "num" /\ v.num # 0)

\* the whitespace characters str.strip() removes, those that can be written
\* in a string here: blank, tab, line feed, carriage return, form feed,
\* vertical tab, the separators U+001C to U+001F, next line U+0085 and the
\* no-break space U+00A0 (the spaces above U+00FF are left out)
Whitespace ==
    {" ", "\t", "\n", "\r", "\f", "", "", "", "", "", "", " "}

\* str.lstrip(), str.rstrip(), str.strip()
RECURSIVE LStrip(_)
LStrip(s) ==
    IF Len(s) > 0 /\ SubSeq(s, 1, 1) \in Whitespace THEN LStrip(SubSeq(s, 2, Len(s))) ELSE s
RECURSIVE RStrip(_)
RStrip(s) ==
    IF Len(s) > 0 /\ SubSeq(s, Len(s), Len(s)) \in Whitespace
    THEN RStrip(SubSeq(s, 1, Len(s) - 1)) ELSE s
Strip(s) == RStrip(LStrip(s))

\* validate_inputs: min_length=5
MinLength == 5

\* validate_inputs with len(value) in place of len(value.strip())
ValidateUntrimmed(value, name) ==
    IF ~Truthy(value) \/ value.kind # "str" THEN <<name \o " must be a non-empty string">>
    ELSE IF Len(value.str) < MinLength THEN <<name \o " is too short">>
    ELSE <<>>

\* validate_inputs, the test of one of its two arguments: the errors it adds
Validate(value, name) ==
    IF ~Truthy(value) \/ value.kind # "str" THEN <<name \o " must be a non-empty string">>
    ELSE IF Len(Strip(value.str)) < MinLength THEN <<name \o " is too short">>
    ELSE <<>>

\* utils.validate_inputs(context, question): the list of errors
ValidateInputs(context, question) == Validate(context, "context") \o Validate(question, "question")

\* "\n".join(docs)
RECURSIVE Join(_, _)
Join(docs, i) ==
    IF i > Len(docs) THEN ""
    ELSE IF i = Len(docs) THEN docs[i]
    ELSE docs[i] \o "\n" \o Join(docs, i + 1)

\* query: the header put between the caller's context and the retrieved
\* documents, and the context used when there is neither
SupplementHeader == "\n\nsupplementary information:\n"
NoInformation == "no relevant information"

\* query: the context passed to generate_answer
CombinedContext(context, retrieved_docs) ==
    IF Truthy(context)
    THEN IF retrieved_docs # <<>>
         THEN context.str \o SupplementHeader \o Join(retrieved_docs, 1)
         ELSE context.str
    ELSE IF retrieved_docs # <<>> THEN Join(retrieved_docs, 1) ELSE NoInformation

\* s[:100] + "..." if len(s) > 100 else s
PreviewLimit == 100
Preview(s) == IF Len(s) > PreviewLimit THEN SubSeq(s, 1, PreviewLimit) \o "..." ELSE s

\* query: k = data.get("k", 3), threshold = data.get("threshold", 0.5)
DefaultK == 3
DefaultThreshold == [none |-> FALSE, num |-> 1, den |-> 2]

\* query: if len(query_history) > 100
HistoryLimit == 100

\* query_history.append(query_record); if len(query_history) > 100:
\* query_history.pop(0)
Remember(history, query_record) ==
    LET h == Append(history, query_record)
    IN IF Len(h) > HistoryLimit THEN Tail(h) ELSE h

\* the request bodies request.json gives the handler: None, {}, objects with
\* keys (an absent key of an object reads as None; k and threshold are given
\* or left to their defaults), and non-empty values that are no object, such
\* as [1]
NoBody == [kind |-> "none", context |-> None, question |-> None, k |-> None,
           threshold |-> [given |-> FALSE, value |-> NoThreshold]]
EmptyBody == [NoBody EXCEPT !.kind = "empty"]
OtherBody == [NoBody EXCEPT !.kind = "other"]
Body(context, question, k, threshold) ==
    [kind |-> "object", context |-> context, question |-> question, k |-> k,
     threshold |-> threshold]

\* what generate_answer does: it returns a text or raises
Generations == {[raised |-> FALSE, text |-> "answer"], [raised |-> TRUE, text |-> ""]}

\* jsonify on the lists search returned: their elements are numpy.float32 and
\* numpy.int64 scalars, which the JSON provider of flask does not serialize
\* (TypeError); only empty lists pass
Serializable(distances, indices) == distances = <<>> /\ indices = <<>>

\* the response of the handler and what it did on the way: status, the
\* validation errors, whether vector_db.search and generate_answer were
\* called, the context passed to generate_answer, the retrieved documents,
\* the history afterwards and the records appended to it
Response(status, errors, searched, generated, context, docs, history, records) ==
    [status |-> status, errors |-> errors, searched |-> searched, generated |-> generated,
     combined_context |-> context, retrieved_docs |-> docs, query_history |-> history,
     appended |-> records]

\* query: query_record = {...} for the answer and the results r of search
QueryRecord(context, question, answer, r, now) ==
    [timestamp |-> now,
     question |-> question.str,
     context_preview |-> IF Truthy(context) /\ Len(context.str) > PreviewLimit
                         THEN Preview(context.str) ELSE context.str,
     answer_preview |-> Preview(answer),
     retrieved_docs_count |-> Len(r.documents),
     retrieval_distances |-> r.distances]

\* app.query: the handler of POST /query on body data, with the width w of
\* the embedding model, the vectors the index visits, the outcome of
\* generate_answer and the reading of the clock
Query(self, history, data, w, found, generation, now) ==
    IF data.kind \in {"none", "empty"}
    THEN Response(400, <<>>, FALSE, FALSE, "", <<>>, history, <<>>)
    ELSE IF data.kind # "object"
    \* data.get raises AttributeError
    THEN Response(500, <<>>, FALSE, FALSE, "", <<>>, history, <<>>)
    ELSE LET context   == data.context
             question  == data.question
             k         == IF data.k.kind = "none" THEN DefaultK ELSE data.k.num
             threshold == IF data.threshold.given THEN data.threshold.value
                          ELSE DefaultThreshold
             validation_errors == ValidateInputs(context, question)
         IN IF validation_errors # <<>>
            THEN Response(400, validation_errors, FALSE, FALSE, "", <<>>, history, <<>>)
            ELSE LET query_embedding == PreprocessData(<<question.str>>, w)
                     r == Search(self, query_embedding, k, threshold, found)
                     combined_context == CombinedContext(context, r.documents)
                 IN IF r.raised
                    THEN Response(500, <<>>, TRUE, FALSE, "", <<>>, history, <<>>)
                    ELSE IF generation.raised
                    THEN Response(500, <<>>, TRUE, TRUE, combined_context,
                                  r.documents, history, <<>>)
                    ELSE LET query_record ==
                                 QueryRecord(context, question, generation.text, r, now)
                         \* the record is appended before the response is built
                         IN Response(IF Serializable(r.distances, r.indices)
                                     THEN 200 ELSE 500,
                                     <<>>, TRUE, TRUE, combined_context,
                                     r.documents, Remember(history, query_record),
                                     <<query_record>>)

\* the runs of query that appended their record, with the status they answered
Answers(r) == [i \in 1 .. Len(r.appended) |-> [status |-> r.status, record |-> r.appended[i]]]

\* batch_query, the loop "for query_item in queries": an item with a question
\* makes one call of query(), which reads the body of the batch request
\* itself; what the call returns is not used. after[i] is the history and the
\* answers when items 1 .. i are done
QueryEach(self, history, data, items, w, found, generations, now) ==
    LET Called(before, r) == [query_history |-> r.query_history,
                              answers |-> before.answers \o Answers(r)]
        after[i \in 0 .. Len(items)] ==
            IF i = 0 THEN [query_history |-> history, answers |-> <<>>]
            ELSE IF ~items[i] THEN after[i - 1]
            ELSE Called(after[i - 1],
                        Query(self, after[i - 1].query_history, data, w, found,
                              generations[i], now + Len(after[i - 1].answers)))
    IN after[Len(items)]

\* data.get("queries"): None, or a list of items, each with a question (TRUE)
\* or without one (FALSE)
NoQueries == [none |-> TRUE, items |-> <<>>]
BatchQueries ==
    {NoQueries} \cup
    {[none |-> FALSE, items |-> l] : l \in UNION {[1 .. n -> BOOLEAN] : n \in BatchLens}}

\* app.batch_query: the handler of POST /batch_query on body data with the
\* given value of its "queries" key: [status, query_history, answers]
BatchQuery(self, history, data, items, w, found, generations, now) ==
    IF data.kind \in {"none", "empty"}
    THEN [status |-> 400, query_history |-> history, answers |-> <<>>]
    ELSE IF data.kind # "object"
    THEN [status |-> 500, query_history |-> history, answers |-> <<>>]
    ELSE IF items.none \/ items.items = <<>>
    THEN [status |-> 400, query_history |-> history, answers |-> <<>>]
    ELSE LET Total(e) == [status |-> 200, query_history |-> e.query_history,
                          answers |-> e.answers]
         IN Total(QueryEach(self, history, data, items.items, w, found, generations, now))

\* the values tried for the keys of a request body
QueryContexts == {None, Str(""), Str("abc"), Str("the policy"), Str(LongDoc)}
QueryQuestions ==
    {None, Num(7), Str(""), Str("     "), Str("\t\n\t\n\t"), Str(" abc "), Str("\tabcd\n"),
     Str("abc "),
     Str("test"), Str("what?")}
QueryKs == {None, Num(0)}
QueryThresholds ==
    {[given |-> FALSE, value |-> NoThreshold],
     [given |-> TRUE, value |-> [none |-> FALSE, num |-> 1, den |-> 1]]}

QueryBodies ==
    {NoBody, EmptyBody, OtherBody} \cup
    {Body(context, question, k, threshold) :
        context \in QueryContexts, question \in QueryQuestions,
        k \in QueryKs, threshold \in QueryThresholds}

\* the bodies sent over and over to fill the history
HistoryBodies ==
    {EmptyBody, Body(Str("the policy"), Str("what?"), None, [given |-> FALSE, value |-> NoThreshold])}

\* app.py run as a program on an empty database: before the server takes
\* requests, the example documents are embedded and added, and the database
\* is saved
SeedCall ==
    /\ ret.op = "init"
    /\ vector_db.documents = <<>>
    /\ \E documents \in DocumentBatches \ {<<>>}, w \in Widths :
        LET r == AddEmbeddings(vector_db, PreprocessData(documents, w), documents,
                               NoMetadata)
        IN /\ vector_db' = r.self
           /\ files' = IF r.raised THEN files ELSE Save(r.self, files)
           /\ ret' = Outcome("add_embeddings", r.raised)
    /\ log' = <<>>
    /\ wf' = FALSE
    /\ UNCHANGED <<threads, queries>>

\* POST /query requests with a body of bodies, one handled after the other;
\* the clock reads the number of the answer
QueryRequests(bodies, limit) ==
    /\ Len(answered) < limit
    /\ \E data \in bodies, w \in Widths, found \in FoundSets(vector_db.index),
          generation \in Generations :
        LET r == Query(vector_db, query_history, data, w, found, generation,
                       Len(answered) + 1)
        IN /\ query_history' = r.query_history
           /\ answered' = answered \o Answers(r)
           /\ ret' = [op |-> "query", raised |-> r.status = 500, n |-> Len(r.retrieved_docs),
                      status |-> r.status, errors |-> r.errors]
    /\ UNCHANGED <<vector_db, files, log, wf, threads>>

QueryRequest == QueryRequests(QueryBodies, MaxQueries)

RepeatedQuery == QueryRequests(HistoryBodies, MaxHistoryQueries)

\* POST /batch_query requests whose body has the keys of a single query or
\* none, among the requests that fill the history
BatchQueryRequest ==
    /\ \E data \in HistoryBodies, items \in BatchQueries, w \in Widths,
          found \in FoundSets(vector_db.index) :
        \E generations \in [1 .. Len(items.items) -> Generations] :
            \E r \in {BatchQuery(vector_db, query_history, data, items, w, found,
                                  generations, Len(answered) + 1)} :
               /\ Len(answered) + Len(r.answers) <= MaxHistoryQueries
               /\ query_history' = r.query_history
               /\ answered' = answered \o r.answers
               /\ ret' = [op |-> "batch_query", raised |-> r.status = 500,
                          n |-> Len(r.answers), status |-> r.status, errors |-> <<>>]
    /\ UNCHANGED <<vector_db, files, log, wf, threads>>

NextQuery == SeedCall \/ QueryRequest

SpecQuery == Init /\ [][NextQuery]_vars

NextHistory == SeedCall \/ RepeatedQuery \/ BatchQueryRequest

\* databases with an exact index: what a query retrieves is determined
InitHistory == Init /\ vector_db.index_type = "flat"

SpecHistory == InitHistory /\ [][NextHistory]_vars

(* --------------------------- concurrent requests ----------------------- *)
(* app.run(threaded=True): every request runs in a thread of its own on    *)
(* the one vector_db, and neither app.py nor database.py takes a lock.     *)
(* One thread handles POST /add_document, one handles POST /query; each    *)
(* action below is one statement of the handler or of the method it calls. *)

WriterAt(pc) == writer.pc = pc
WriterTo(pc) == writer' = [writer EXCEPT !.pc = pc]
ReaderAt(pc) == reader.pc = pc

\* the handler's except clause: the request ends with a 500 response
WriterFails ==
    /\ writer' = WriterIdle
    /\ ret' = Outcome("add_document", TRUE)

\* add_document up to the call of add_embeddings
WriterBegin ==
    /\ WriterAt("idle")
    /\ \E documents \in DocumentBatches \ {<<>>}, w \in Widths,
          metadata_list \in JsonMetadataLists :
        /\ Fits(vector_db, PreprocessData(documents, w), documents)
        /\ writer' = [pc |-> "create", embeddings |-> PreprocessData(documents, w),
                      documents |-> documents, metadata_list |-> metadata_list,
                      new_ids |-> <<>>, i |-> 0]
    /\ UNCHANGED <<vector_db, files, ret, log, wf, reader, queries>>

\* add_embeddings: if self.index is None: self.create_index()
WriterCreate ==
    /\ WriterAt("create")
    /\ LET r == IF vector_db.index.type = "none" THEN CreateIndex(vector_db)
                ELSE [raised |-> FALSE, self |-> vector_db]
       IN /\ vector_db' = r.self
          /\ IF r.raised THEN WriterFails ELSE WriterTo("train") /\ UNCHANGED ret
    /\ UNCHANGED <<files, log, wf, reader, queries>>

\* add_embeddings: if not self.index.is_trained: self.train(embeddings)
WriterTrain ==
    /\ WriterAt("train")
    /\ LET r == Train(vector_db, writer.embeddings)
       IN /\ vector_db' = r.self
          /\ IF r.raised THEN WriterFails ELSE WriterTo("index_add") /\ UNCHANGED ret
    /\ UNCHANGED <<files, log, wf, reader, queries>>

\* add_embeddings: self.index.add(embeddings) is called; faiss runs it with
\* the interpreter lock released, so a search of the other thread that has
\* not returned yet runs at the same time, unsynchronised
WriterIndexAdd ==
    /\ WriterAt("index_add")
    /\ IF IndexAdd(vector_db, writer.embeddings).raised
       THEN WriterFails /\ UNCHANGED reader
       ELSE /\ WriterTo("adding")
            /\ reader' = IF ReaderAt("searching") THEN [reader EXCEPT !.raced = TRUE]
                         ELSE reader
            /\ UNCHANGED ret
    /\ UNCHANGED <<vector_db, files, log, wf, queries>>

\* self.index.add(embeddings) returns
WriterIndexAdded ==
    /\ WriterAt("adding")
    /\ vector_db' = IndexAdd(vector_db, writer.embeddings).self
    /\ WriterTo("cache")
    /\ UNCHANGED <<files, ret, log, wf, reader, queries>>

\* add_embeddings: self.embeddings_cache.extend(embeddings)
WriterCache ==
    /\ WriterAt("cache")
    /\ vector_db' = [vector_db EXCEPT !.embeddings_cache = @ \o writer.embeddings.rows]
    /\ WriterTo("documents")
    /\ UNCHANGED <<files, ret, log, wf, reader, queries>>

\* add_documents: new_ids = ...; self.documents.extend(documents)
WriterDocuments ==
    /\ WriterAt("documents")
    /\ vector_db' = [vector_db EXCEPT !.documents = @ \o writer.documents]
    /\ writer' = [writer EXCEPT !.pc = "document_ids",
                     !.new_ids = [j \in 1 .. Len(writer.documents) |->
                                     vector_db.next_id + j - 1]]
    /\ UNCHANGED <<files, ret, log, wf, reader, queries>>

\* add_documents: self.document_ids.extend(new_ids); if metadata_list:
WriterDocumentIds ==
    /\ WriterAt("document_ids")
    /\ vector_db' = [vector_db EXCEPT !.document_ids = @ \o writer.new_ids]
    /\ writer' = [writer EXCEPT !.i = 1,
                     !.pc = IF writer.metadata_list.list # <<>> THEN "metadata"
                            ELSE "default_metadata"]
    /\ UNCHANGED <<files, ret, log, wf, reader, queries>>

\* add_documents: iteration writer.i of "for i, meta in enumerate(metadata_list)"
WriterMetadata ==
    /\ WriterAt("metadata")
    /\ LET list == writer.metadata_list.list
           m == IF writer.i <= Len(writer.new_ids)
                THEN StoreMetadata(vector_db.metadata, <<list[writer.i]>>,
                                   <<writer.new_ids[writer.i]>>, 1)
                ELSE [raised |-> FALSE, metadata |-> vector_db.metadata]
       IN /\ vector_db' = [vector_db EXCEPT !.metadata = m.metadata]
          /\ IF m.raised THEN WriterFails
             ELSE /\ writer' = [writer EXCEPT !.i = @ + 1,
                                   !.pc = IF writer.i < Len(list) THEN "metadata"
                                          ELSE "next_id"]
                  /\ UNCHANGED ret
    /\ UNCHANGED <<files, log, wf, reader, queries>>

\* add_documents: iteration writer.i of "for doc_id in new_ids", the loop run
\* for a metadata_list that is None or empty
WriterDefaultMetadata ==
    /\ WriterAt("default_metadata")
    /\ vector_db' = [vector_db EXCEPT
                        !.metadata = Append(@, DefaultMetadata(writer.new_ids[writer.i]))]
    /\ writer' = [writer EXCEPT !.i = @ + 1,
                     !.pc = IF writer.i < Len(writer.new_ids) THEN "default_metadata"
                            ELSE "next_id"]
    /\ UNCHANGED <<files, ret, log, wf, reader, queries>>

\* add_documents: self.next_id += len(documents)
WriterNextId ==
    /\ WriterAt("next_id")
    /\ vector_db' = [vector_db EXCEPT !.next_id = @ + Len(writer.documents)]
    /\ WriterTo("save")
    /\ UNCHANGED <<files, ret, log, wf, reader, queries>>

\* add_document: vector_db.save(vector_db_path), the index file
WriterSaveIndex ==
    /\ WriterAt("save")
    /\ files' = SaveIndex(vector_db, files)
    /\ WriterTo("save_data")
    /\ UNCHANGED <<vector_db, ret, log, wf, reader, queries>>

\* save: the data file; and the response of add_document
WriterSaveData ==
    /\ WriterAt("save_data")
    /\ files' = SaveData(vector_db, files)
    /\ writer' = WriterIdle
    /\ ret' = Outcome("add_document", FALSE)
    /\ UNCHANGED <<vector_db, log, wf, reader, queries>>

\* the query the reader thread handles: a body that passes validation, with k
\* and threshold as the body gives them or left to their defaults
ReaderContext == Str("the policy")
ReaderQuestion == Str("what?")
ReaderQueries == {PreprocessData(<<ReaderQuestion.str>>, w) : w \in Widths}
ReaderKs == {1, DefaultK}
ReaderThresholds == {NoThreshold, DefaultThreshold}

\* where the reader thread is while it runs search
SearchSteps == {"nprobe", "clamp", "index_search", "searching", "collect"}

\* the query handler answers: the thread is done
ReaderResponds(status, n) ==
    /\ reader' = ReaderIdle
    /\ ret' = [op |-> "query", raised |-> status = 500, n |-> n, status |-> status,
               errors |-> <<>>]

\* query up to the first statement of search:
\* if self.index is None or self.index.ntotal == 0: return [], [], []
ReaderGuard ==
    /\ ReaderAt("idle")
    /\ Len(answered) < MaxThreadQueries
    /\ \E query_vector \in ReaderQueries, k \in ReaderKs, threshold \in ReaderThresholds :
        reader' = IF vector_db.index.type = "none" \/ NTotal(vector_db.index) = 0
                  THEN [ReaderIdle EXCEPT !.pc = "generate"]
                  ELSE [ReaderIdle EXCEPT !.pc = "nprobe", !.query_vector = query_vector,
                                          !.k = k, !.threshold = threshold]
    /\ UNCHANGED <<vector_db, files, ret, log, wf, writer, queries>>

\* search: if hasattr(self.index, 'nprobe'): self.index.nprobe = ...; every
\* search of an inverted file is made with this one value
ReaderNProbe ==
    /\ ReaderAt("nprobe")
    /\ reader' = [reader EXCEPT !.pc = "clamp"]
    /\ UNCHANGED <<vector_db, files, ret, log, wf, writer, queries>>

\* search: k = min(k, self.index.ntotal)
ReaderClamp ==
    /\ ReaderAt("clamp")
    /\ reader' = [reader EXCEPT !.pc = "index_search",
                                !.k = Min(@, NTotal(vector_db.index))]
    /\ UNCHANGED <<vector_db, files, ret, log, wf, writer, queries>>

\* search: self.index.search(query_vector, k) is called; it raises on a query
\* of the wrong width, and otherwise runs with the interpreter lock released
ReaderIndexSearch ==
    /\ ReaderAt("index_search")
    /\ IF IndexSearch(vector_db.index, reader.query_vector, reader.k, {}).raised
       THEN ReaderResponds(500, 0)
       ELSE /\ reader' = [reader EXCEPT !.pc = "searching", !.before = vector_db.index,
                                        !.raced = WriterAt("adding")]
            /\ UNCHANGED ret
    /\ UNCHANGED <<vector_db, files, log, wf, writer, queries>>

\* what a search may return that ran while index.add was changing the index
\* (a data race inside faiss): the answer of the index before the add, the
\* answer of the index after it, or k labels of the index after it in any
\* order, each with the distance of its vector
RacedSearches(before, after, query_vector, k) ==
    LET q == query_vector.rows[1]
    IN {IndexSearch(before, query_vector, k, found) : found \in FoundSets(before)} \cup
       {IndexSearch(after, query_vector, k, found) : found \in FoundSets(after)} \cup
       {[raised |-> FALSE, indices |-> l,
         distances |-> [i \in 1 .. k |-> IF l[i] = -1 THEN InfDistance
                                         ELSE L2(after.vecs[l[i] + 1], q)]] :
            l \in [1 .. k -> Labels(after) \cup {-1}]}

\* self.index.search(query_vector, k) returns distances, indices
ReaderIndexSearched ==
    /\ ReaderAt("searching")
    /\ LET after == IF WriterAt("adding") THEN IndexAdd(vector_db, writer.embeddings).self.index
                    ELSE vector_db.index
       IN \E cand \in IF reader.raced
                      THEN RacedSearches(reader.before, after, reader.query_vector, reader.k)
                      ELSE {IndexSearch(vector_db.index, reader.query_vector, reader.k, found) :
                               found \in FoundSets(vector_db.index)} :
            reader' = [reader EXCEPT !.pc = "collect", !.cand = cand, !.i = 1,
                                     !.before = NoIndex, !.raced = FALSE]
    /\ UNCHANGED <<vector_db, files, ret, log, wf, writer, queries>>

\* a search that ran while index.add was changing the index may also read
\* memory the add has freed: the server process dies, with both requests
ReaderCrash ==
    /\ ReaderAt("searching")
    /\ reader.raced
    /\ reader' = [ReaderIdle EXCEPT !.pc = "dead"]
    /\ writer' = [WriterIdle EXCEPT !.pc = "dead"]
    /\ ret' = Outcome("crash", TRUE)
    /\ UNCHANGED <<vector_db, files, log, wf, queries>>

\* search: iteration reader.i of "for i in range(k)", and the return after
\* the last one
ReaderCollect ==
    /\ ReaderAt("collect")
    /\ LET one == [raised |-> FALSE, indices |-> <<reader.cand.indices[reader.i]>>,
                   distances |-> <<reader.cand.distances[reader.i]>>]
           acc == Collect(vector_db, one, reader.threshold, 1, reader.acc)
       IN IF acc.raised THEN ReaderResponds(500, 0)
          ELSE /\ reader' = IF reader.i = reader.k
                            THEN [ReaderIdle EXCEPT !.pc = "generate", !.acc = acc]
                            ELSE [reader EXCEPT !.i = @ + 1, !.acc = acc]
               /\ UNCHANGED ret
    /\ UNCHANGED <<vector_db, files, log, wf, writer, queries>>

\* query: the combined context, and answer = generate_answer(...)
ReaderGenerate ==
    /\ ReaderAt("generate")
    /\ \E generation \in Generations :
        IF generation.raised THEN ReaderResponds(500, 0)
        ELSE /\ reader' = [reader EXCEPT !.pc = "remember", !.answer = generation.text]
             /\ UNCHANGED ret
    /\ UNCHANGED <<vector_db, files, log, wf, writer, queries>>

\* query: query_record = {...}; query_history.append(query_record); if
\* len(query_history) > 100: query_history.pop(0)
ReaderRemember ==
    /\ ReaderAt("remember")
    /\ LET query_record == QueryRecord(ReaderContext, ReaderQuestion, reader.answer,
                                       reader.acc, Len(answered) + 1)
       IN /\ query_history' = Remember(query_history, query_record)
          /\ answered' = Append(answered,
                                [status |-> IF Serializable(reader.acc.distances,
                                                            reader.acc.indices)
                                            THEN 200 ELSE 500,
                                 record |-> query_record])
    /\ reader' = [reader EXCEPT !.pc = "respond"]
    /\ UNCHANGED <<vector_db, files, ret, log, wf, writer>>

\* query: return jsonify({...}), or the except clause when jsonify raises
ReaderRespond ==
    /\ ReaderAt("respond")
    /\ ReaderResponds(IF Serializable(reader.acc.distances, reader.acc.indices)
                      THEN 200 ELSE 500,
                      Len(reader.acc.documents))
    /\ UNCHANGED <<vector_db, files, log, wf, writer, queries>>

NextThreads ==
    \/ WriterBegin \/ WriterCreate \/ WriterTrain \/ WriterIndexAdd \/ WriterIndexAdded
    \/ WriterCache \/ WriterDocuments \/ WriterDocumentIds \/ WriterMetadata
    \/ WriterDefaultMetadata \/ WriterNextId \/ WriterSaveIndex \/ WriterSaveData
    \/ ReaderGuard \/ ReaderNProbe \/ ReaderClamp \/ ReaderIndexSearch
    \/ ReaderIndexSearched \/ ReaderCrash \/ ReaderCollect \/ ReaderGenerate
    \/ ReaderRemember \/ ReaderRespond

SpecThreads == Init /\ [][NextThreads]_vars

\* C3: with requests running concurrently, no search runs while the index
\* holds more vectors than there are documents, the state between the index
\* append and the document append of add_embeddings.
C3_SearchSeesAlignedStores ==
    reader.pc \in SearchSteps => NTotal(vector_db.index) <= Len(vector_db.documents)

(* ------------------------ claims on add_embeddings --------------------- *)

\* C1: in every state reached by add_embeddings calls, the index, documents,
\* metadata, document_ids and embeddings_cache all have the same length.
C1_AlignedLengths ==
    /\ NTotal(vector_db.index) = Len(vector_db.documents)
    /\ Len(vector_db.metadata) = Len(vector_db.documents)
    /\ Len(vector_db.document_ids) = Len(vector_db.documents)
    /\ Len(vector_db.embeddings_cache) = Len(vector_db.documents)

\* C2: add_embeddings is atomic: every call either appends the vectors of
\* some batch to the index and the documents, IDs and metadata of some batch
\* to the document store, or raises and leaves the index count,
\* embeddings_cache, documents, metadata, document_ids and next_id as they were.
C2_Atomic ==
    [][ret'.op = "add_embeddings" =>
         IF ret'.raised
         THEN /\ NTotal(vector_db'.index) = NTotal(vector_db.index)
              /\ vector_db'.embeddings_cache = vector_db.embeddings_cache
              /\ vector_db'.documents = vector_db.documents
              /\ vector_db'.metadata = vector_db.metadata
              /\ vector_db'.document_ids = vector_db.document_ids
              /\ vector_db'.next_id = vector_db.next_id
         ELSE \E embeddings \in EmbeddingBatches, documents \in DocumentBatches :
                /\ vector_db'.index.vecs = vector_db.index.vecs \o embeddings.rows
                /\ vector_db'.embeddings_cache = vector_db.embeddings_cache \o embeddings.rows
                /\ vector_db'.documents = vector_db.documents \o documents
                /\ Len(vector_db'.document_ids) = Len(vector_db.document_ids) + Len(documents)
                /\ Len(vector_db'.metadata) = Len(vector_db.metadata) + Len(documents)
                /\ vector_db'.next_id = vector_db.next_id + Len(documents)]_vars

\* C4: after any sequence of well-formed add_embeddings calls (non-empty
\* batch, one embedding per document, one metadata dict per document), every
\* position holds the document, the metadata (with the ID written into it)
\* and the ID of the document inserted there, in insertion order.
C4_PositionsKeepInserted ==
    wf =>
      /\ Len(vector_db.documents) = Len(log)
      /\ Len(vector_db.metadata) = Len(log)
      /\ Len(vector_db.document_ids) = Len(log)
      /\ \A i \in 1 .. Len(log) :
            /\ vector_db.documents[i] = log[i].doc
            /\ vector_db.metadata[i].tag = log[i].tag
            /\ vector_db.metadata[i].id = log[i].id
            /\ vector_db.document_ids[i] = log[i].id

\* C9: appending n documents with a metadata list of m dicts adds exactly n
\* metadata entries: the first min(n, m) are the supplied ones, the others
\* are the default {id}.
C9_MetadataPerDocument ==
    \A documents \in DocumentBatches, metadata_list \in MetadataLists :
        (\A j \in 1 .. Len(metadata_list.list) : metadata_list.list[j].dict) =>
            LET r == AddDocuments(vector_db, documents, metadata_list)
                n == Len(documents)
                m == Len(metadata_list.list)
                old == Len(vector_db.metadata)
            IN /\ ~r.raised
               /\ Len(r.self.metadata) = old + n
               /\ \A j \in 1 .. n :
                    /\ r.self.metadata[old + j].id = vector_db.next_id + j - 1
                    /\ r.self.metadata[old + j].tag =
                          IF j <= m THEN metadata_list.list[j].tag ELSE ""

\* C10: no ID is assigned twice: document_ids is strictly increasing and
\* next_id is greater than every assigned ID.
C10_UniqueIds ==
    /\ \A i, j \in 1 .. Len(vector_db.document_ids) :
          i < j => vector_db.document_ids[i] < vector_db.document_ids[j]
    /\ \A i \in 1 .. Len(vector_db.document_ids) :
          vector_db.document_ids[i] < vector_db.next_id

(* ---------------------------- claims on search ------------------------- *)

\* t1 <= t2, for thresholds that are given
AtMost(t1, t2) == t1.num * t2.den <= t2.num * t1.den

\* C5: in every state and for every query, k and threshold, a search that
\* returns gives at most min(k, total_vectors) results, and the returned
\* distances are in non-decreasing order.
C5_SearchBoundedSorted ==
    \A query_vector \in Queries, k \in Ks, threshold \in Thresholds,
       found \in FoundSets(vector_db.index) :
        LET r == Search(vector_db, query_vector, k, threshold, found)
        IN ~r.raised =>
             /\ Len(r.distances) <= Min(k, NTotal(vector_db.index))
             /\ Len(r.indices) = Len(r.distances)
             /\ Len(r.documents) = Len(r.distances)
             /\ \A i \in 1 .. Len(r.distances) - 1 : r.distances[i] <= r.distances[i + 1]

\* a search has returned two results from an index whose second vector is
\* strictly nearer to some query than its first
C5_Witness ==
    /\ ret.op = "search" /\ ~ret.raised /\ ret.n = 2
    /\ Len(vector_db.documents) >= 2
    /\ vector_db.index.vecs[1] = Vec(vector_db.index.d, 1)
    /\ vector_db.index.vecs[2] = Vec(vector_db.index.d, 0)

\* C6: a search with threshold t that returns gives exactly the candidates,
\* among the k nearest found and without the -1 markers, whose similarity
\* 1/(1+distance) is >= t, in the candidates' order; and of two thresholds
\* the higher never gives more results.
C6_ThresholdExact ==
    \A query_vector \in Queries, k \in Ks, found \in FoundSets(vector_db.index) :
        \A t \in Thresholds \ {NoThreshold} :
            LET r == Search(vector_db, query_vector, k, t, found)
                all == Search(vector_db, query_vector, k, NoThreshold, found)
                keep(i) == t.num * (1 + all.distances[i]) <= t.den
            IN /\ ~r.raised /\ ~all.raised =>
                    /\ r.indices = SelectSeq([i \in 1 .. Len(all.indices) |->
                                                 IF keep(i) THEN all.indices[i] ELSE -1],
                                             LAMBDA x : x # -1)
                    /\ Len(r.documents) = Cardinality({i \in 1 .. Len(all.indices) : keep(i)})
               /\ \A t2 \in Thresholds \ {NoThreshold} :
                    LET r2 == Search(vector_db, query_vector, k, t2, found)
                    IN AtMost(t, t2) /\ ~r.raised /\ ~r2.raised =>
                          Len(r2.documents) <= Len(r.documents)

\* a search has returned one result where some threshold keeps one of the two
\* candidates of an exact index and rejects the other
C6_Witness ==
    /\ ret.op = "search" /\ ~ret.raised /\ ret.n = 1
    /\ vector_db.index.type = "flat"
    /\ NTotal(vector_db.index) = 2 /\ Len(vector_db.documents) = 2
    /\ \E query_vector \in Queries, t \in Thresholds \ {NoThreshold} :
          /\ Len(Search(vector_db, query_vector, 2, t, {0, 1}).documents) = 1
          /\ Len(Search(vector_db, query_vector, 2, NoThreshold, {0, 1}).documents) = 2

\* C7: on a database whose index is unset or holds no vector, search returns
\* three empty sequences and does not raise, for every query, k and threshold.
C7_EmptySearch ==
    (vector_db.index.type = "none" \/ NTotal(vector_db.index) = 0) =>
        \A query_vector \in Queries, k \in Ks, threshold \in Thresholds,
           found \in FoundSets(vector_db.index) :
            LET r == Search(vector_db, query_vector, k, threshold, found)
            IN ~r.raised /\ r.distances = <<>> /\ r.indices = <<>> /\ r.documents = <<>>

\* a search has returned nothing from a database that holds documents and
\* whose index load has left unset
C7_Witness ==
    /\ ret.op = "search" /\ ~ret.raised /\ ret.n = 0
    /\ vector_db.index.type = "none"
    /\ Len(vector_db.documents) > 0

(* -------------------------- claims on persistence ---------------------- *)

\* the results search may give
SearchResults(self, query_vector, k, threshold) ==
    {Search(self, query_vector, k, threshold, found) : found \in FoundSets(self.index)}

\* C8: in every state, save(p) followed by load(p) on a new database gives
\* a database with the get_stats(), documents, metadata, document_ids,
\* next_id and search results of the original.
C8_RoundTrip ==
    \A fresh \in Configs :
        LET loaded == Load(fresh, Save(vector_db, files))
        IN /\ GetStats(loaded) = GetStats(vector_db)
           /\ loaded.documents = vector_db.documents
           /\ loaded.metadata = vector_db.metadata
           /\ loaded.document_ids = vector_db.document_ids
           /\ loaded.next_id = vector_db.next_id
           /\ \A query_vector \in Queries, k \in Ks, threshold \in Thresholds :
                SearchResults(loaded, query_vector, k, threshold)
                    = SearchResults(vector_db, query_vector, k, threshold)

\* C12: load tolerates each missing file on its own and does not raise: with
\* the index file missing the index is left unset and the data file is still
\* loaded; with the data file missing the document store is left empty and
\* the index file is still loaded.
C12_LoadTolerant ==
    LET loaded == Load(vector_db, files)
    IN /\ ret.op = "load" => ~ret.raised
       /\ ~files.has_index =>
            /\ loaded.index = NoIndex
            /\ files.has_data =>
                 /\ loaded.documents = files.data.documents
                 /\ loaded.metadata = files.data.metadata
                 /\ loaded.document_ids = files.data.document_ids
                 /\ loaded.next_id = files.data.next_id
       /\ ~files.has_data =>
            /\ loaded.documents = <<>>
            /\ loaded.metadata = <<>>
            /\ loaded.document_ids = <<>>
            /\ files.has_index => loaded.index = files.index

\* C15: once the number of vectors in the index and the number of documents
\* differ, the database refuses every further write: no add_embeddings call
\* made in a misaligned state succeeds.
C15_MisalignedRefusesWrites ==
    [][(ret'.op = "add_embeddings" /\ NTotal(vector_db.index) # Len(vector_db.documents))
          => ret'.raised]_vars

\* C17: in every state reached by adds, saves and loads, every position
\* search returns is a position of the documents list, so search raises no
\* index error, and the document returned for it is the one whose vector is
\* at that position of the index.
C17_SearchNamesMatchedDocument ==
    (vector_db.index.type # "none" /\ NTotal(vector_db.index) > 0) =>
        \A query_vector \in Queries, k \in Ks, threshold \in Thresholds,
           found \in FoundSets(vector_db.index) :
            LET cand == IndexSearch(vector_db.index, query_vector,
                                    Min(k, NTotal(vector_db.index)), found)
                r == Collect(vector_db, cand, threshold, 1, NoResults)
            IN ~cand.raised =>
                 /\ ~r.raised
                 /\ \A i \in 1 .. Len(r.indices) :
                      /\ r.indices[i] < Len(vector_db.documents)
                      /\ r.documents[i] = vector_db.documents[r.indices[i] + 1]
                      /\ vector_db.index.vecs[r.indices[i] + 1]
                            = Vec(vector_db.index.d, Embedding(r.documents[i]))

(* -------------------------- claims on get_context ---------------------- *)

\* the longest formatted line of a document of the database
LongestLine(self) ==
    Max({0} \cup {PartLen(ContextPart(self.documents[i], 0, 64)) : i \in 1 .. Len(self.documents)})

\* C11: for every database state, k and max_length, the string get_context
\* returns is no longer than max_length plus the length of one formatted
\* document line (here the longest line any document of the database gives).
C11_ContextBounded ==
    \A query_vector \in Queries, k \in ContextKs, max_length \in ContextMaxLengths,
       found \in FoundSets(vector_db.index), bits \in FloatBits :
        LET c == GetContext(vector_db, query_vector, k, max_length, found, bits)
        IN ~c.raised => JoinedLen(c.context_parts) <= max_length + LongestLine(vector_db)

(* --------------------- claims on query orchestration ------------------- *)

\* a question the validation accepts: a string of MinLength or more
\* characters after trimming
ValidQuestion(question) == question.kind = "str" /\ Len(Strip(question.str)) >= MinLength

\* C13: the caller's context is optional: a query with a valid question and
\* no context is not rejected, and the context passed to the answer
\* generator is the retrieved documents alone, or the fixed "no relevant
\* information" text when nothing was retrieved.
C13_ContextOptional ==
    \A data \in QueryBodies, w \in Widths, found \in FoundSets(vector_db.index),
       generation \in Generations :
        (data.kind = "object" /\ data.context = None /\ ValidQuestion(data.question)) =>
            LET r == Query(vector_db, query_history, data, w, found, generation,
                           Len(answered) + 1)
            IN /\ r.status # 400
               /\ r.generated =>
                    r.combined_context = IF r.retrieved_docs = <<>> THEN NoInformation
                                         ELSE Join(r.retrieved_docs, 1)

\* C14: a query whose body is empty, or whose question is missing, empty,
\* whitespace-only or shorter than 5 characters after trimming, is rejected
\* with status 400 before the database is searched or an answer generated,
\* and leaves the history as it was.
C14_BadQuestionRejected ==
    \A data \in QueryBodies, w \in Widths, found \in FoundSets(vector_db.index),
       generation \in Generations :
        (\/ data.kind \in {"none", "empty"}
         \/ data.kind = "object" /\ data.question = None
         \/ data.kind = "object" /\ data.question.kind = "str"
               /\ Len(Strip(data.question.str)) < 5) =>
            LET r == Query(vector_db, query_history, data, w, found, generation,
                           Len(answered) + 1)
            IN /\ r.status = 400
               /\ ~r.searched
               /\ ~r.generated
               /\ r.query_history = query_history

\* a query was rejected for its question alone, on a database that holds
\* documents to retrieve
C14_Witness ==
    /\ ret.op = "query"
    /\ ret.status = 400
    /\ Len(ret.errors) = 1
    /\ ret.errors[1] = "question is too short"
    /\ Len(vector_db.documents) > 0
    /\ NTotal(vector_db.index) > 0

\* the records of the queries that were answered with status 200, in order
RECURSIVE Successful(_, _)
Successful(answers, i) ==
    IF i > Len(answers) THEN <<>>
    ELSE (IF answers[i].status = 200 THEN <<answers[i].record>> ELSE <<>>)
         \o Successful(answers, i + 1)

\* C16: after any sequence of queries handled one after the other the
\* history holds at most 100 records, and they are the records of the most
\* recent successfully answered queries in the order they arrived.
C16_HistoryBounded ==
    LET records == Successful(answered, 1)
        n == Min(HistoryLimit, Len(records))
    IN /\ Len(query_history) <= HistoryLimit
       /\ query_history = SubSeq(records, Len(records) - n + 1, Len(records))

====
